---- MODULE Spec2Model ----
(***************************************************************************)
(* Annotation state engine of vIR-OLO (spectrAI): the label registry, the  *)
(* per-image annotation files, the in-memory box collection, the           *)
(* coordinate transform and the two-click drawing machine.                 *)
(*                                                                         *)
(* One action per event handler of App / CanvasWidget.  Each action models *)
(* the whole handler, including the saves, reloads and button rebuilds it  *)
(* calls.  The variable ev records the handler that ran last and its       *)
(* outcome, so that handlers that return early are still visible steps.    *)
(***************************************************************************)
EXTENDS Integers, Sequences, FiniteSets, TLC

VARIABLES
    projectLoaded,   \* config["PROJECT_LOADED"]
    labels,          \* config["LABELS"]
    currentLabel,    \* config["CURRENT_LABEL"] (Unset while the key is absent)
    yaml,            \* names of dataset.yaml in the project folder
    mode,            \* config["MODE"]
    boxes,           \* canvas.box_manager.boxes
    is_box_started,  \* canvas.is_box_started
    anchor,          \* <<canvas.anchor_x, canvas.anchor_y>>
    selected_box_id, \* canvas.selected_box_id (NoId for None)
    current_label_id,\* canvas.current_label_id
    files,           \* annotation file of every image: Absent or File(lines)
    current_index,   \* image_manager.current_index
    imageDims,       \* <<width, height>> of every image file of the project
    labelSize,       \* <<width, height>> of the canvas widget
    xform,           \* image_manager transform: [ow, oh, sw, sh, ox, oy]
    indexes,         \* predictor_manager.indexes (<<>> while no model is loaded)
    ev               \* last handler and its outcome

vars == <<projectLoaded, labels, currentLabel, yaml, mode, boxes,
          is_box_started, anchor, selected_box_id, current_label_id, files,
          current_index, imageDims, labelSize, xform, indexes, ev>>

----------------------------------------------------------------------------
(* Bounds and inputs of the model *)

MaxBoxes == 2
MaxLabels == 3

\* label names the dialogs and the detector's dataset.yaml can supply
Names == {"aromatics", "esters", "ketones"}

\* width and height of the images of the project, in pixels.  Powers of
\* two, so every scale factor is an exact double and the float arithmetic
\* of the transform coincides with the rational arithmetic used here.
ProjectImageDim == <<16, 16>>

\* sizes the canvas widget takes
DisplaySizes == {<<16, 16>>, <<32, 32>>}

\* pointer positions (widget coordinates) of the modelled mouse events
Points == {<<0, 0>>, <<6, 6>>, <<12, 0>>, <<22, 22>>}

Unset == -1
NoId == -1
NoPoint == <<-1, -1>>
\* an annotation file: absent, or present with its lines
Absent == [exists |-> FALSE, lines |-> <<>>]
File(ls) == [exists |-> TRUE, lines |-> ls]
LeftButton == "LeftButton"
RightButton == "RightButton"

----------------------------------------------------------------------------
(* Annotation Codec: 6-decimal normalisation and truncating denormalisation *)

Scale6 == 1000000

RECURSIVE IsPow2(_)
IsPow2(n) == n = 1 \/ (n > 1 /\ n % 2 = 0 /\ IsPow2(n \div 2))

RECURSIVE GCD(_, _)
GCD(a, b) == IF b = 0 THEN a ELSE GCD(b, a % b)

Abs(n) == IF n < 0 THEN -n ELSE n
Min(a, b) == IF a <= b THEN a ELSE b
Max(a, b) == IF a >= b THEN a ELSE b

\* int(): truncation toward zero of the rational n/d, d > 0
Trunc(n, d) == IF n >= 0 THEN n \div d ELSE -((-n) \div d)

\* f"{num/den:.6f}" as a count of millionths.  The double nearest num/den is
\* rounded to 6 decimals; on an exact decimal tie the result is half-even
\* when num/den is a dyadic rational (the double is exact) and otherwise
\* depends on the representation error of the double: either neighbour.
Format6(num, den) ==
    LET q == (num * Scale6) \div den
        r == (num * Scale6) % den
    IN  IF 2 * r < den THEN {q}
        ELSE IF 2 * r > den THEN {q + 1}
        ELSE IF IsPow2(den \div GCD(num, den))
             THEN {IF q % 2 = 0 THEN q ELSE q + 1}
        ELSE {q, q + 1}

\* float("0.dddddd") is exact iff the decimal is a dyadic rational
Dyadic6(m) == m % 15625 = 0

\* int(v) for a float v whose exact value is the rational n/d, computed from
\* operands that are exact doubles iff exact: an exact integer value may be
\* missed by one ulp in either direction unless the arithmetic was exact.
TruncFloat(n, d, exact) ==
    LET t == Trunc(n, d)
    IN  IF n % d # 0 \/ exact THEN {t}
        ELSE IF t >= 1 THEN {t, t - 1}
        ELSE IF t <= -1 THEN {t, t + 1}
        ELSE {t}

\* all sequences that pick one element of every set of the sequence ss
RECURSIVE SeqChoices(_)
SeqChoices(ss) ==
    IF ss = <<>> THEN {<<>>}
    ELSE {<<h>> \o t : h \in Head(ss), t \in SeqChoices(Tail(ss))}

----------------------------------------------------------------------------
(* Persisted annotation lines.  kind is "ok" for a line with 5 numeric     *)
(* fields, "short" for 1 to 4 fields, "badlabel" for a first field         *)
(* int() rejects, "badcoord" for an integer label followed by a field      *)
(* float() rejects or reads as nan, "overflow" for 5 fields int() and      *)
(* float() accept, one of the coordinates read as an infinity ("inf",      *)
(* "1e400"), "blank" for a line of white space.                            *)

Line(kind, label, xc, yc, nw, nh) ==
    [kind |-> kind, label |-> label, xc |-> xc, yc |-> yc, nw |-> nw, nh |-> nh]

\* a line of white space only: no field at all
Blank == Line("blank", 0, 0, 0, 0, 0)

\* the same text behind leading white space
Indented(line) ==
    [kind |-> line.kind, label |-> line.label, xc |-> line.xc, yc |-> line.yc,
     nw |-> line.nw, nh |-> line.nh, indent |-> TRUE]

\* str.strip(): the text without its leading and trailing white space
Strip(line) == Line(line.kind, line.label, line.xc, line.yc, line.nw, line.nh)

Box(id, x, y, w, h, label) ==
    [id |-> id, x |-> x, y |-> y, w |-> w, h |-> h, label |-> label,
     status |-> FALSE]

\* the line(s) save_current_annotations can write for one box
SaveLine(box, W, H) ==
    {Line("ok", box.label, a, b, c, d) :
        a \in Format6(2 * box.x + box.w, 2 * W),
        b \in Format6(2 * box.y + box.h, 2 * H),
        c \in Format6(box.w, W),
        d \in Format6(box.h, H)}

\* faulty denormalisation: the centre is taken for the corner (the half
\* width and half height are not subtracted)
DenormFromCentre(line, W, H) ==
    {[x |-> x, y |-> y, w |-> w, h |-> h] :
        x \in TruncFloat(line.xc * W, Scale6, Dyadic6(line.xc)),
        y \in TruncFloat(line.yc * H, Scale6, Dyadic6(line.yc)),
        w \in TruncFloat(line.nw * W, Scale6, Dyadic6(line.nw)),
        h \in TruncFloat(line.nh * H, Scale6, Dyadic6(line.nh))}

\* the rectangle(s) add_box_from_yolo can compute for one line
Denorm(line, W, H) ==
    {[x |-> x, y |-> y, w |-> w, h |-> h] :
        x \in TruncFloat((2 * line.xc - line.nw) * W, 2 * Scale6,
                         Dyadic6(line.xc) /\ Dyadic6(line.nw)),
        y \in TruncFloat((2 * line.yc - line.nh) * H, 2 * Scale6,
                         Dyadic6(line.yc) /\ Dyadic6(line.nh)),
        w \in TruncFloat(line.nw * W, Scale6, Dyadic6(line.nw)),
        h \in TruncFloat(line.nh * H, Scale6, Dyadic6(line.nh))}

\* load_annotations_for_current_image parses a line iff it has 5 fields and
\* int()/float() accept them
Loadable(line) == line.kind = "ok"

\* update_single_annotation_file reindexes a line iff it has 5 fields and
\* int() accepts the first
Reindexable(line) == line.kind \in {"ok", "badcoord", "overflow"}

\* add_box_from_yolo raises OverflowError for the line: int() of an
\* infinite coordinate
Overflows(line) == line.kind = "overflow"

BoxIds(bxs) == {bxs[i].id : i \in 1..Len(bxs)}

\* uuid4(): an id different from every id the program still holds
NewId(held) ==
    CHOOSE i \in 0..Cardinality(held) :
        i \notin held /\ \A j \in 0..(i - 1) : j \in held

\* the box sequences the loop of load_annotations_for_current_image can
\* leave, starting from bxs, for the remaining lines.  The loop catches
\* ValueError only: an OverflowError ends it at the line that raised.
RECURSIVE LoadLines(_, _, _, _, _)
LoadLines(bxs, lines, sel, W, H) ==
    IF lines = <<>> THEN {bxs}
    ELSE IF Overflows(Head(lines)) THEN {bxs}
    ELSE IF ~Loadable(Head(lines)) THEN LoadLines(bxs, Tail(lines), sel, W, H)
    ELSE UNION {LoadLines(
                    Append(bxs, Box(NewId(BoxIds(bxs) \cup {sel}),
                                    g.x, g.y, g.w, g.h, Head(lines).label)),
                    Tail(lines), sel, W, H) :
                g \in Denorm(Head(lines), W, H)}

\* faulty load: the file is never read
LoadAnnotationsSkipped(bxs, loaded, file, sel, W, H) == {bxs}

\* load_annotations_for_current_image: no image or no file, nothing is added
LoadAnnotations(bxs, loaded, file, sel, W, H) ==
    IF ~loaded \/ W <= 0 \/ H <= 0 \/ ~file.exists THEN {bxs}
    ELSE LoadLines(bxs, file.lines, sel, W, H)

\* faulty save: nothing is written
SaveAnnotationsSkipped(fs, bxs, loaded, idx, W, H) == {fs}

\* save_current_annotations: the file contents it can leave for image idx
SaveAnnotations(fs, bxs, loaded, idx, W, H) ==
    IF ~loaded \/ W <= 0 \/ H <= 0 THEN {fs}
    ELSE {[fs EXCEPT ![idx] = File(ls)] :
            ls \in SeqChoices([i \in 1..Len(bxs) |-> SaveLine(bxs[i], W, H)])}

----------------------------------------------------------------------------
(* Coordinate transform (ImageManager) *)

\* fit_to_window: size of the scaled pixmap
FitToWindow(w, h, iw, ih, stretch) ==
    IF stretch THEN <<w, h>>
    ELSE IF w * ih <= h * iw
         THEN <<w, (ih * w) \div iw>>
         ELSE <<(iw * h) \div ih, h>>

\* render: original size, scaled size (scale = scaled / original), offsets
Render(size, dim) ==
    LET sc == FitToWindow(size[1], size[2], dim[1], dim[2], TRUE)
    IN  [ow |-> dim[1], oh |-> dim[2], sw |-> sc[1], sh |-> sc[2],
         ox |-> (size[1] - sc[1]) \div 2, oy |-> (size[2] - sc[2]) \div 2]

\* ImageManager.__init__: no image rendered yet
NoXform == [ow |-> 0, oh |-> 0, sw |-> 0, sh |-> 0, ox |-> 0, oy |-> 0]

\* scale = scaled / original is an exact double iff the reduced fraction has
\* a power of two as denominator
ExactScale(scaled, original) ==
    original > 0 /\ scaled > 0 /\ IsPow2(original \div GCD(scaled, original))

\* one axis of ImageManager.screen_to_image_coords: int(relative / scale),
\* clamped.  relative / scale has the exact value relative * original /
\* scaled; computed with an inexact scale, a whole-number quotient can come
\* out one ulp low and int() then gives one less.
ScreenToImageAxis(relative, scaled, original) ==
    {Max(0, Min(q, original - 1)) :
        q \in IF scaled > 0
              THEN TruncFloat(relative * original, scaled,
                              ExactScale(scaled, original))
              ELSE {0}}

\* faulty conversion: the result is not clamped into the image
ScreenToImageCoordsUnclamped(t, p) ==
    LET rx == p[1] - t.ox
        ry == p[2] - t.oy
    IN  IF rx < 0 \/ ry < 0 THEN {NoPoint}
        ELSE {IF ix >= t.ow \/ iy >= t.oh THEN NoPoint ELSE <<ix, iy>> :
                ix \in IF t.sw > 0
                       THEN TruncFloat(rx * t.ow, t.sw, ExactScale(t.sw, t.ow))
                       ELSE {0},
                iy \in IF t.sh > 0
                       THEN TruncFloat(ry * t.oh, t.sh, ExactScale(t.sh, t.oh))
                       ELSE {0}}

\* ImageManager.screen_to_image_coords followed by the range check of
\* CanvasWidget.screen_to_image_coords: the points it can return
ScreenToImageCoords(t, p) ==
    LET rx == p[1] - t.ox
        ry == p[2] - t.oy
    IN  IF rx < 0 \/ ry < 0 THEN {NoPoint}
        ELSE {IF ix < 0 \/ iy < 0 \/ ix >= t.ow \/ iy >= t.oh
              THEN NoPoint ELSE <<ix, iy>> :
                ix \in ScreenToImageAxis(rx, t.sw, t.ow),
                iy \in ScreenToImageAxis(ry, t.sh, t.oh)}

\* the same conversion for scales that are exact doubles (every scale of the
\* canvas and session specifications), where the quotient is exact
ToImage(t, p) ==
    LET rx == p[1] - t.ox
        ry == p[2] - t.oy
    IN  IF rx < 0 \/ ry < 0 THEN NoPoint
        ELSE LET ix == Max(0, Min(IF t.sw > 0 THEN (rx * t.ow) \div t.sw ELSE 0, t.ow - 1))
                 iy == Max(0, Min(IF t.sh > 0 THEN (ry * t.oh) \div t.sh ELSE 0, t.oh - 1))
             IN  IF ix < 0 \/ iy < 0 \/ ix >= t.ow \/ iy >= t.oh THEN NoPoint
                 ELSE <<ix, iy>>

\* ImageManager.image_to_screen_coords
ToScreen(t, q) ==
    <<Trunc(q[1] * t.sw, t.ow) + t.ox, Trunc(q[2] * t.sh, t.oh) + t.oy>>

\* CanvasWidget.is_mouse_in_image
InImage(loaded, t, p) ==
    /\ loaded
    /\ t.ox <= p[1] /\ p[1] <= t.ox + t.sw
    /\ t.oy <= p[2] /\ p[2] <= t.oy + t.sh

\* the containment test of CanvasWidget._get_box_at_position
BoxContains(t, b, p) ==
    LET s1 == ToScreen(t, <<b.x, b.y>>)
        s2 == ToScreen(t, <<b.x + b.w, b.y + b.h>>)
    IN  s1[1] <= p[1] /\ p[1] <= s2[1] /\ s1[2] <= p[2] /\ p[2] <= s2[2]

\* faulty hit-test: the collection is scanned oldest first
GetBoxAtOldest(t, bxs, p) ==
    LET hits == {i \in 1..Len(bxs) : BoxContains(t, bxs[i], p)}
    IN  IF hits = {} THEN 0 ELSE CHOOSE i \in hits : \A j \in hits : i <= j

\* CanvasWidget._get_box_at_position: position in bxs of the box found, 0 for None
GetBoxAt(t, bxs, p) ==
    LET hits == {i \in 1..Len(bxs) : BoxContains(t, bxs[i], p)}
    IN  IF hits = {} THEN 0 ELSE CHOOSE i \in hits : \A j \in hits : j <= i

----------------------------------------------------------------------------
(* Label registry: reindexing of the annotation files, detector labels *)

\* faulty rewrite: the lines of the deleted label are dropped but the
\* higher indices are not shifted down
RewriteLineNoShift(line, k) ==
    IF Reindexable(line) /\ line.label = k THEN <<>> ELSE <<line>>

\* faulty rewrite: only the lines with 5 fields and an integer label are
\* written back
RewriteLineWellFormedOnly(line, k) ==
    IF line.kind = "blank" \/ ~Reindexable(line) THEN <<>>
    ELSE IF line.label = k THEN <<>>
    ELSE IF line.label > k THEN <<[Strip(line) EXCEPT !.label = line.label - 1]>>
    ELSE <<Strip(line)>>

\* update_single_annotation_file, one line: <<>> when the line is dropped.
\* Every line is stripped first and a line that is empty then is skipped.
RewriteLine(line, k) ==
    IF line.kind = "blank" THEN <<>>
    ELSE IF ~Reindexable(line) THEN <<Strip(line)>>
    ELSE IF line.label = k THEN <<>>
    ELSE IF line.label > k THEN <<[Strip(line) EXCEPT !.label = line.label - 1]>>
    ELSE <<Strip(line)>>

RECURSIVE RewriteLines(_, _)
RewriteLines(lines, k) ==
    IF lines = <<>> THEN <<>>
    ELSE RewriteLine(Head(lines), k) \o RewriteLines(Tail(lines), k)

\* removed_count and shifted_count of update_single_annotation_file
RemovedCount(lines, k) ==
    Cardinality({i \in 1..Len(lines) :
                    Reindexable(lines[i]) /\ lines[i].label = k})

\* faulty count: the removed lines are counted as shifted too
ShiftedCountFromK(lines, k) ==
    Cardinality({i \in 1..Len(lines) :
                    Reindexable(lines[i]) /\ lines[i].label >= k})

ShiftedCount(lines, k) ==
    Cardinality({i \in 1..Len(lines) :
                    Reindexable(lines[i]) /\ lines[i].label > k})

\* update_single_annotation_file: [file, removed, shifted]
UpdateSingleAnnotationFile(file, k) ==
    [file |-> File(RewriteLines(file.lines, k)),
     removed |-> RemovedCount(file.lines, k),
     shifted |-> ShiftedCount(file.lines, k)]

RECURSIVE SumOver(_, _)
SumOver(S, f) ==
    IF S = {} THEN 0
    ELSE LET i == CHOOSE j \in S : TRUE IN f[i] + SumOver(S \ {i}, f)

\* update_annotations_after_label_delete: every .txt file of the
\* annotation folder is rewritten; [files, removed, shifted]
UpdateAnnotationsAfterLabelDelete(fs, k) ==
    LET present == {i \in DOMAIN fs : fs[i].exists}
        upd == [i \in present |-> UpdateSingleAnnotationFile(fs[i], k)]
    IN  [files |-> [i \in DOMAIN fs |-> IF i \in present THEN upd[i].file ELSE fs[i]],
         removed |-> SumOver(present, [i \in present |-> upd[i].removed]),
         shifted |-> SumOver(present, [i \in present |-> upd[i].shifted])]

\* faulty guard: only an empty registry is protected
DeleteRefusedWhenEmpty(n) == n < 1

\* delete_label refuses to remove the last label
DeleteRefused(n) == n <= 1

\* list.index(): position (from 0) of the first occurrence, -1 when absent
IndexOf(seq, name) ==
    IF \E i \in 1..Len(seq) : seq[i] = name
    THEN (CHOOSE i \in 1..Len(seq) :
              seq[i] = name /\ \A j \in 1..(i - 1) : seq[j] # name) - 1
    ELSE -1

\* faulty reconciliation: an appended name is mapped to the length of the
\* list instead of its last index
RECURSIVE MapIndexesOffByOne(_, _)
MapIndexesOffByOne(user, model) ==
    IF model = <<>> THEN [labels |-> user, mapping |-> <<>>]
    ELSE LET label == Head(model)
             found == IndexOf(user, label) >= 0
             user2 == IF found THEN user ELSE Append(user, label)
             mapped == IF found THEN IndexOf(user, label) ELSE Len(user2)
             rest == MapIndexesOffByOne(user2, Tail(model))
         IN  [labels |-> rest.labels, mapping |-> <<mapped>> \o rest.mapping]

\* faulty reconciliation: an unseen name is put in front of the list
RECURSIVE MapIndexesAtFront(_, _)
MapIndexesAtFront(user, model) ==
    IF model = <<>> THEN [labels |-> user, mapping |-> <<>>]
    ELSE LET label == Head(model)
             found == IndexOf(user, label) >= 0
             user2 == IF found THEN user ELSE <<label>> \o user
             mapped == IF found THEN IndexOf(user, label) ELSE 0
             rest == MapIndexesAtFront(user2, Tail(model))
         IN  [labels |-> rest.labels, mapping |-> <<mapped>> \o rest.mapping]

\* PredictorManager.map_indexes: [labels, mapping], mapping[i] the
\* MAPPED_IDX of detector index i-1
RECURSIVE MapIndexes(_, _)
MapIndexes(user, model) ==
    IF model = <<>> THEN [labels |-> user, mapping |-> <<>>]
    ELSE LET label == Head(model)
             found == IndexOf(user, label) >= 0
             user2 == IF found THEN user ELSE Append(user, label)
             mapped == IF found THEN IndexOf(user, label) ELSE Len(user2) - 1
             rest == MapIndexes(user2, Tail(model))
         IN  [labels |-> rest.labels, mapping |-> <<mapped>> \o rest.mapping]

\* faulty rebuild: the buttons are rebuilt and none is selected
AfterButtonRebuildUnselected(lbls, cur) == cur

\* update_label_buttons ends with on_label_button_clicked(0) when there are labels
AfterButtonRebuild(lbls, cur) == IF lbls = <<>> THEN cur ELSE 0

----------------------------------------------------------------------------
(* Drawing *)

\* faulty size test: a side of exactly 5 pixels is accepted
AcceptsBoxFrom5(w, h) == w >= 5 /\ h >= 5

\* the size test of the second click
AcceptsBox(w, h) == w > 5 /\ h > 5

\* corner normalisation of the second click
RectOf(p1, p2) ==
    [x |-> Min(p1[1], p2[1]), y |-> Min(p1[2], p2[2]),
     w |-> Abs(p2[1] - p1[1]), h |-> Abs(p2[2] - p1[2])]

\* faulty reset: the selected flags are left as they are
ClearStatusKept(bxs) == bxs

\* box.status = False for every box of the collection
ClearStatus(bxs) == [i \in 1..Len(bxs) |-> [bxs[i] EXCEPT !.status = FALSE]]

----------------------------------------------------------------------------
(* Initial state: the application after App.__init__, and the project on   *)
(* disk that load_existing_project will open.                              *)

\* the handler that ran last, its outcome and two reported counts
Ev(op, res, a, b) == [op |-> op, res |-> res, a |-> a, b |-> b]

LineFor(label, x, y, w, h) ==
    CHOOSE l \in SaveLine(Box(0, x, y, w, h, label),
                          ProjectImageDim[1], ProjectImageDim[2]) : TRUE

\* annotation files of the project's images, image 0 first
InitFiles ==
    <<File(<<LineFor(1, 0, 0, 6, 6), Line("short", 1, 187500, 0, 0, 0)>>),
      Absent>>

InitYaml == <<"aromatics", "esters">>

InitApp ==
    /\ projectLoaded = FALSE
    /\ labels = <<>>
    /\ currentLabel = Unset
    /\ mode = "BOX"
    /\ boxes = <<>>
    /\ is_box_started = FALSE
    /\ anchor = <<0, 0>>
    /\ selected_box_id = NoId
    /\ current_label_id = 0
    /\ current_index = 0
    /\ labelSize = <<16, 16>>
    /\ xform = NoXform
    /\ indexes = <<>>
    /\ ev = Ev("init", "", 0, 0)

Init ==
    /\ InitApp
    /\ yaml = InitYaml
    /\ files = [i \in 0..(Len(InitFiles) - 1) |-> InitFiles[i + 1]]
    /\ imageDims = [i \in 0..(Len(InitFiles) - 1) |-> ProjectImageDim]

NumImages == Cardinality(DOMAIN imageDims)
Running == ev.op # "closeEvent"
\* image_manager and image_manager.current_image are set
ImageLoaded == projectLoaded

----------------------------------------------------------------------------
(* Session handlers (App) *)

\* CanvasWidget.reset_for_new_image: the collection is emptied, the drawing
\* in progress and the selection are dropped
BoxesAfterReset == <<>>

ResetForNewImage ==
    /\ is_box_started' = FALSE
    /\ selected_box_id' = NoId

\* load_existing_project, for a folder holding config.json and dataset.yaml
LoadExistingProject ==
    /\ Running
    /\ labels' = yaml
    /\ currentLabel' = AfterButtonRebuild(yaml, currentLabel)
    /\ projectLoaded' = TRUE
    /\ current_index' = 0
    /\ xform' = Render(labelSize, imageDims[0])
    /\ boxes' \in LoadAnnotations(boxes, TRUE, files[0], selected_box_id,
                                  imageDims[0][1], imageDims[0][2])
    /\ Len(boxes') <= MaxBoxes
    /\ ev' = Ev("load_existing_project", "", 0, 0)
    /\ UNCHANGED <<yaml, mode, is_box_started, anchor, selected_box_id,
                   current_label_id, files, imageDims, labelSize, indexes>>

\* save, reset, show image idx, load: the common body of navigate_image
\* and go_to_image
MoveTo(idx) ==
    /\ files' \in SaveAnnotations(files, boxes, ImageLoaded, current_index,
                                  xform.ow, xform.oh)
    /\ ResetForNewImage
    /\ current_index' = idx
    /\ xform' = Render(labelSize, imageDims[idx])
    /\ boxes' \in LoadAnnotations(BoxesAfterReset, TRUE, files'[idx], NoId,
                                  imageDims[idx][1], imageDims[idx][2])

\* navigate_image / change_image; direction is "+" or "-"
NavigateImage(direction) ==
    /\ Running
    /\ IF projectLoaded
       THEN /\ MoveTo(IF direction = "+"
                      THEN Min(current_index + 1, NumImages - 1)
                      ELSE Max(current_index - 1, 0))
            /\ ev' = Ev("navigate_image", direction, 0, 0)
       ELSE /\ ev' = Ev("navigate_image", "ignored", 0, 0)
            /\ UNCHANGED <<files, is_box_started, selected_box_id,
                           current_index, xform, boxes>>
    /\ UNCHANGED <<projectLoaded, labels, currentLabel, yaml, mode, anchor,
                   current_label_id, imageDims, labelSize, indexes>>

\* on_go_btn_clicked with an integer typed in the index field, go_to_image
GoToImage(typed) ==
    /\ Running
    /\ IF projectLoaded
       THEN /\ MoveTo(Max(0, Min(typed, NumImages - 1)))
            /\ ev' = Ev("go_to_image", "", 0, 0)
       ELSE /\ ev' = Ev("go_to_image", "ignored", 0, 0)
            /\ UNCHANGED <<files, is_box_started, selected_box_id,
                           current_index, xform, boxes>>
    /\ UNCHANGED <<projectLoaded, labels, currentLabel, yaml, mode, anchor,
                   current_label_id, imageDims, labelSize, indexes>>

\* closeEvent: save, then the window closes
CloseEvent ==
    /\ Running
    /\ files' \in SaveAnnotations(files, boxes, ImageLoaded, current_index,
                                  xform.ow, xform.oh)
    /\ ev' = Ev("closeEvent", "", 0, 0)
    /\ UNCHANGED <<projectLoaded, labels, currentLabel, yaml, mode, boxes,
                   is_box_started, anchor, selected_box_id, current_label_id,
                   current_index, imageDims, labelSize, xform, indexes>>

\* resizeEvent: the widget takes its new size, the render is deferred
ResizeEvent(size) ==
    /\ Running
    /\ size # labelSize
    /\ labelSize' = size
    /\ ev' = Ev("resizeEvent", "", 0, 0)
    /\ UNCHANGED <<projectLoaded, labels, currentLabel, yaml, mode, boxes,
                   is_box_started, anchor, selected_box_id, current_label_id,
                   files, current_index, imageDims, xform, indexes>>

\* handle_delayed_resize: the timer started by resizeEvent fires
HandleDelayedResize ==
    /\ Running
    /\ ImageLoaded
    /\ xform # Render(labelSize, imageDims[current_index])
    /\ xform' = Render(labelSize, imageDims[current_index])
    /\ ev' = Ev("handle_delayed_resize", "", 0, 0)
    /\ UNCHANGED <<projectLoaded, labels, currentLabel, yaml, mode, boxes,
                   is_box_started, anchor, selected_box_id, current_label_id,
                   files, current_index, imageDims, labelSize, indexes>>

----------------------------------------------------------------------------
(* Label handlers (App) *)

\* on_label_button_clicked, for one of the buttons shown
OnLabelButtonClicked(index) ==
    /\ Running
    /\ index \in 0..(Len(labels) - 1)
    /\ currentLabel' = index
    /\ ev' = Ev("on_label_button_clicked", "", 0, 0)
    /\ UNCHANGED <<projectLoaded, labels, yaml, mode, boxes, is_box_started,
                   anchor, selected_box_id, current_label_id, files,
                   current_index, imageDims, labelSize, xform, indexes>>

\* save_labels_to_yaml: written when config["ROOT"] is set
SavedYaml(lbls) == IF projectLoaded THEN lbls ELSE yaml

\* on_add_label_clicked, dialog accepted with new_name
OnAddLabelClicked(new_name) ==
    /\ Running
    /\ Len(labels) < MaxLabels
    /\ labels' = Append(labels, new_name)
    /\ currentLabel' = AfterButtonRebuild(labels', currentLabel)
    /\ yaml' = SavedYaml(labels')
    /\ ev' = Ev("on_add_label_clicked", "", 0, 0)
    /\ UNCHANGED <<projectLoaded, mode, boxes, is_box_started, anchor,
                   selected_box_id, current_label_id, files, current_index,
                   imageDims, labelSize, xform, indexes>>

\* faulty rename: the old name is removed and the new one added at the end
OnEditLabelAcceptedAtEnd(idx, new_name) ==
    /\ Running
    /\ idx \in 0..(Len(labels) - 1)
    /\ labels' = [i \in 1..Len(labels) |->
                     IF i <= idx THEN labels[i]
                     ELSE IF i < Len(labels) THEN labels[i + 1] ELSE new_name]
    /\ yaml' = SavedYaml(labels')
    /\ ev' = Ev("on_edit_label_clicked", "", 0, 0)
    /\ UNCHANGED <<projectLoaded, currentLabel, mode, boxes, is_box_started,
                   anchor, selected_box_id, current_label_id, files,
                   current_index, imageDims, labelSize, xform, indexes>>

\* on_edit_label_clicked, dialog accepted with new_name for button idx
OnEditLabelAccepted(idx, new_name) ==
    /\ Running
    /\ idx \in 0..(Len(labels) - 1)
    /\ labels' = [labels EXCEPT ![idx + 1] = new_name]
    /\ yaml' = SavedYaml(labels')
    /\ ev' = Ev("on_edit_label_clicked", "", 0, 0)
    /\ UNCHANGED <<projectLoaded, currentLabel, mode, boxes, is_box_started,
                   anchor, selected_box_id, current_label_id, files,
                   current_index, imageDims, labelSize, xform, indexes>>

\* list.pop(idx), idx counted from 0
RemoveAt(seq, idx) ==
    [i \in 1..(Len(seq) - 1) |-> IF i <= idx THEN seq[i] ELSE seq[i + 1]]

\* the clamp of CURRENT_LABEL after the pop
ClampCurrent(cur, n) == IF n = 0 THEN 0 ELSE IF cur >= n THEN n - 1 ELSE cur

\* delete_label(idx)
DeleteLabel(idx) ==
    /\ Running
    /\ projectLoaded
    /\ IF DeleteRefused(Len(labels))
       THEN /\ ev' = Ev("delete_label", "rejected", 0, 0)
            /\ UNCHANGED <<labels, currentLabel, yaml, boxes, files>>
       ELSE IF idx < 0 \/ idx >= Len(labels)
       THEN /\ ev' = Ev("delete_label", "ignored", 0, 0)
            /\ UNCHANGED <<labels, currentLabel, yaml, boxes, files>>
       ELSE LET upd == UpdateAnnotationsAfterLabelDelete(files, idx)
            IN  /\ labels' = RemoveAt(labels, idx)
                /\ files' = upd.files
                /\ currentLabel' =
                       AfterButtonRebuild(labels',
                                          ClampCurrent(currentLabel, Len(labels')))
                /\ yaml' = SavedYaml(labels')
                /\ boxes' \in LoadAnnotations(<<>>, ImageLoaded,
                                              files'[current_index],
                                              selected_box_id, xform.ow, xform.oh)
                /\ ev' = Ev("delete_label", "done", upd.removed, upd.shifted)
    /\ UNCHANGED <<projectLoaded, mode, is_box_started, anchor,
                   selected_box_id, current_label_id, current_index,
                   imageDims, labelSize, xform, indexes>>

(* delete_label when reading or writing annotation files raises.  A fault   *)
(* of a file is "none", "read" (open(filepath, 'r') or the line iteration  *)
(* raises) or "write" (open(filepath, 'w') or f.write raises).             *)
FaultKinds == {"none", "read", "write"}

\* update_single_annotation_file under a fault: the except clause logs the
\* error and the counts reached so far are returned.  A read fault leaves
\* the file as it was, with the counts of the lines read before it; a write
\* fault leaves the file as it was (open failed) or cut after some of the
\* rewritten lines, with the full counts.
UpdateSingleAnnotationFileIO(file, k, fault) ==
    LET ok == UpdateSingleAnnotationFile(file, k)
    IN  CASE fault = "read" ->
                {[file |-> file,
                  removed |-> RemovedCount(SubSeq(file.lines, 1, n), k),
                  shifted |-> ShiftedCount(SubSeq(file.lines, 1, n), k)] :
                    n \in 0..Max(0, Len(file.lines) - 1)}
          [] fault = "write" ->
                {[file |-> g, removed |-> ok.removed, shifted |-> ok.shifted] :
                    g \in {file} \cup
                          {File(SubSeq(ok.file.lines, 1, n)) :
                              n \in 0..(Len(ok.file.lines) - 1)}}
          [] OTHER -> {ok}

\* faulty batch: the first file (in index order) that raises ends the loop,
\* the files after it are not processed
UpdateAnnotationsAbortOnError(fs, k, faults) ==
    LET present == {i \in DOMAIN fs : fs[i].exists}
        reached(i) == \A j \in present : j < i => faults[j] = "none"
        outs == [i \in present |->
                    IF reached(i)
                    THEN UpdateSingleAnnotationFileIO(fs[i], k, faults[i])
                    ELSE {[file |-> fs[i], removed |-> 0, shifted |-> 0]}]
    IN  {[files |-> [i \in DOMAIN fs |->
                        IF i \in present THEN u[i].file ELSE fs[i]],
          removed |-> SumOver(present, [i \in present |-> u[i].removed]),
          shifted |-> SumOver(present, [i \in present |-> u[i].shifted])] :
            u \in {v \in [present -> UNION {outs[i] : i \in present}] :
                      \A i \in present : v[i] \in outs[i]}}

\* update_annotations_after_label_delete under faults: every .txt file is
\* handed to update_single_annotation_file, whatever happened to the others
UpdateAnnotationsAfterLabelDeleteIO(fs, k, faults) ==
    LET present == {i \in DOMAIN fs : fs[i].exists}
        outs == [i \in present |->
                    UpdateSingleAnnotationFileIO(fs[i], k, faults[i])]
    IN  {[files |-> [i \in DOMAIN fs |->
                        IF i \in present THEN u[i].file ELSE fs[i]],
          removed |-> SumOver(present, [i \in present |-> u[i].removed]),
          shifted |-> SumOver(present, [i \in present |-> u[i].shifted])] :
            u \in {v \in [present -> UNION {outs[i] : i \in present}] :
                      \A i \in present : v[i] \in outs[i]}}

\* delete_label(idx) of an existing label, not the last one, while the
\* files named by faults raise
DeleteLabelIO(idx, faults) ==
    /\ Running
    /\ projectLoaded
    /\ ~DeleteRefused(Len(labels))
    /\ idx \in 0..(Len(labels) - 1)
    /\ \E i \in DOMAIN files : files[i].exists /\ faults[i] # "none"
    /\ labels' = RemoveAt(labels, idx)
    /\ \E upd \in UpdateAnnotationsAfterLabelDeleteIO(files, idx, faults) :
          /\ files' = upd.files
          /\ ev' = Ev("delete_label", "error_logged", upd.removed, upd.shifted)
    /\ currentLabel' =
           AfterButtonRebuild(labels', ClampCurrent(currentLabel, Len(labels')))
    /\ yaml' = SavedYaml(labels')
    /\ boxes' \in LoadAnnotations(<<>>, ImageLoaded, files'[current_index],
                                  selected_box_id, xform.ow, xform.oh)
    /\ UNCHANGED <<projectLoaded, mode, is_box_started, anchor,
                   selected_box_id, current_label_id, current_index,
                   imageDims, labelSize, xform, indexes>>

\* on_load_model_clicked, folder with a .pt file and a dataset.yaml listing
\* model_labels, merge confirmed
OnLoadModelClicked(model_labels) ==
    /\ Running
    /\ projectLoaded
    /\ LET m == MapIndexes(labels, model_labels)
       IN  /\ Len(m.labels) <= MaxLabels
           /\ labels' = m.labels
           /\ indexes' = m.mapping
    /\ currentLabel' = AfterButtonRebuild(labels', currentLabel)
    /\ yaml' = SavedYaml(labels')
    /\ ev' = Ev("on_load_model_clicked", "", 0, 0)
    /\ UNCHANGED <<projectLoaded, mode, boxes, is_box_started, anchor,
                   selected_box_id, current_label_id, files, current_index,
                   imageDims, labelSize, xform>>

\* one detection of the detector: centre, size and class, in pixels
Detection(x_c, y_c, w, h, cls) ==
    [x_c |-> x_c, y_c |-> y_c, w |-> w, h |-> h, cls |-> cls]

\* PredictorManager.reformat_results: top-left corner, size, and the
\* detector's own class index as idx (sizes here are even, so the corner is
\* a whole number)
ReformatResults(dets) ==
    [i \in 1..Len(dets) |->
        [x |-> dets[i].x_c - dets[i].w \div 2,
         y |-> dets[i].y_c - dets[i].h \div 2,
         w |-> dets[i].w, h |-> dets[i].h, idx |-> dets[i].cls]]

\* BoxManager.instantiate_from_predictions(results): one box per record,
\* in order, carrying the record's idx as its label
RECURSIVE InstantiateFromPredictions(_, _, _)
InstantiateFromPredictions(bxs, results, sel) ==
    IF results = <<>> THEN bxs
    ELSE LET r == Head(results)
         IN  InstantiateFromPredictions(
                 Append(bxs, Box(NewId(BoxIds(bxs) \cup {sel}),
                                 r.x, r.y, r.w, r.h, r.idx)),
                 Tail(results), sel)

\* a detector was loaded by on_load_model_clicked: CURRENT_MODEL_PATH holds
\* its folder and predictor_manager its index mapping
ModelLoaded == indexes # <<>>

\* on_click_predict, the detector answering dets for the current image
OnClickPredict(dets) ==
    /\ Running
    /\ ModelLoaded
    /\ \A i \in 1..Len(dets) : dets[i].cls < Len(indexes)
    /\ Len(boxes) + Len(dets) <= MaxBoxes
    /\ LET results == ReformatResults(dets)
       IN  IF Len(results) = 0
           THEN /\ boxes' = boxes
                /\ ev' = Ev("on_click_predict", "none", 0, 0)
           ELSE /\ boxes' = InstantiateFromPredictions(boxes, results,
                                                       selected_box_id)
                /\ ev' = Ev("on_click_predict", "imported", 0, 0)
    /\ UNCHANGED <<projectLoaded, labels, currentLabel, yaml, mode,
                   is_box_started, anchor, selected_box_id, current_label_id,
                   files, current_index, imageDims, labelSize, xform,
                   indexes>>

----------------------------------------------------------------------------
(* The collection's interface (BoxManager, BoundingBox.update) and        *)
(* CanvasWidget.delete_selected_box.                                       *)

\* position of the first box with the given id, 0 when there is none
PosOf(bxs, box_id) ==
    IF \E i \in 1..Len(bxs) : bxs[i].id = box_id
    THEN CHOOSE i \in 1..Len(bxs) :
            /\ bxs[i].id = box_id
            /\ \A j \in 1..(i - 1) : bxs[j].id # box_id
    ELSE 0

\* faulty remove: reports True whether or not the id was found
RemoveBoxReportsTrue(bxs, box_id) ==
    LET i == PosOf(bxs, box_id)
    IN  [boxes |-> IF i = 0 THEN bxs ELSE RemoveAt(bxs, i - 1), ret |-> TRUE]

\* BoxManager.remove_box: the collection left and the value returned
RemoveBox(bxs, box_id) ==
    LET i == PosOf(bxs, box_id)
    IN  IF i = 0 THEN [boxes |-> bxs, ret |-> FALSE]
        ELSE [boxes |-> RemoveAt(bxs, i - 1), ret |-> TRUE]

\* an argument that was passed: present in the record of keyword arguments
Passed(u, f) == f \in DOMAIN u

\* BoundingBox.update: x, y, width, height, each only when not None
BoundingBoxUpdate(box, u) ==
    [box EXCEPT !.x = IF Passed(u, "x") THEN u.x ELSE @,
                !.y = IF Passed(u, "y") THEN u.y ELSE @,
                !.w = IF Passed(u, "w") THEN u.w ELSE @,
                !.h = IF Passed(u, "h") THEN u.h ELSE @]

\* BoxManager.update_box: the collection left and the value returned
UpdateBox(bxs, box_id, u) ==
    LET i == PosOf(bxs, box_id)
    IN  IF i = 0 THEN [boxes |-> bxs, ret |-> FALSE]
        ELSE LET b == BoundingBoxUpdate(bxs[i], u)
             IN  [boxes |-> [bxs EXCEPT ![i] =
                               [b EXCEPT !.label =
                                   IF Passed(u, "label") THEN u.label ELSE @]],
                  ret |-> TRUE]

\* faulty getter: the internal list itself is returned
GetAllBoxesLive(bxs) == [items |-> bxs, shared |-> TRUE]

\* BoxManager.get_all_boxes: self.boxes.copy(), a new list of the same boxes
GetAllBoxes(bxs) == [items |-> bxs, shared |-> FALSE]

\* what a caller can do to a list it holds
ListMutations == {"append", "pop", "reverse"}

MutateList(items, m) ==
    CASE m = "append" -> Append(items, Box(NewId(BoxIds(items)), 0, 0, 6, 6, 0))
      [] m = "pop" -> IF items = <<>> THEN items
                      ELSE SubSeq(items, 1, Len(items) - 1)
      [] OTHER -> [i \in 1..Len(items) |-> items[Len(items) + 1 - i]]

\* Python's str(bool)
BoolStr(b) == IF b THEN "True" ELSE "False"

\* a caller takes get_all_boxes() and mutates the list it got
GetAllBoxesCall(m) ==
    /\ Running
    /\ LET got == GetAllBoxes(boxes)
       IN  boxes' = IF got.shared THEN MutateList(got.items, m) ELSE boxes
    /\ ev' = Ev("get_all_boxes", m, 0, 0)
    /\ UNCHANGED <<projectLoaded, labels, currentLabel, yaml, mode,
                   is_box_started, anchor, selected_box_id, current_label_id,
                   files, current_index, imageDims, labelSize, xform,
                   indexes>>

\* box_manager.remove_box(box_id)
RemoveBoxCall(box_id) ==
    /\ Running
    /\ LET r == RemoveBox(boxes, box_id)
       IN  /\ boxes' = r.boxes
           /\ ev' = Ev("remove_box", BoolStr(r.ret), 0, 0)
    /\ UNCHANGED <<projectLoaded, labels, currentLabel, yaml, mode,
                   is_box_started, anchor, selected_box_id, current_label_id,
                   files, current_index, imageDims, labelSize, xform,
                   indexes>>

\* box_manager.update_box(box_id, **u)
UpdateBoxCall(box_id, u) ==
    /\ Running
    /\ LET r == UpdateBox(boxes, box_id, u)
       IN  /\ boxes' = r.boxes
           /\ ev' = Ev("update_box", BoolStr(r.ret), 0, 0)
    /\ UNCHANGED <<projectLoaded, labels, currentLabel, yaml, mode,
                   is_box_started, anchor, selected_box_id, current_label_id,
                   files, current_index, imageDims, labelSize, xform,
                   indexes>>

\* CanvasWidget.delete_selected_box
DeleteSelectedBox ==
    /\ Running
    /\ IF selected_box_id # NoId
       THEN /\ boxes' = RemoveBox(boxes, selected_box_id).boxes
            /\ selected_box_id' = NoId
            /\ ev' = Ev("delete_selected_box", "True", 0, 0)
       ELSE /\ ev' = Ev("delete_selected_box", "False", 0, 0)
            /\ UNCHANGED <<boxes, selected_box_id>>
    /\ UNCHANGED <<projectLoaded, labels, currentLabel, yaml, mode,
                   is_box_started, anchor, current_label_id, files,
                   current_index, imageDims, labelSize, xform, indexes>>

\* canvas.screen_to_image_coords(p[1], p[2]) on the rendered image; the
\* point returned is reported in ev
ScreenToImageCall(p) ==
    /\ Running
    /\ ImageLoaded
    /\ \E r \in ScreenToImageCoords(xform, p) :
          ev' = IF r = NoPoint
                THEN Ev("screen_to_image_coords", "None", 0, 0)
                ELSE Ev("screen_to_image_coords", "point", r[1], r[2])
    /\ UNCHANGED <<projectLoaded, labels, currentLabel, yaml, mode, boxes,
                   is_box_started, anchor, selected_box_id, current_label_id,
                   files, current_index, imageDims, labelSize, xform,
                   indexes>>

----------------------------------------------------------------------------
(* Mode switch and drawing (App._set_mode, CanvasWidget.mousePressEvent) *)

Modes == {"BOX", "ERASE", "UPDATE"}

\* on_edit_mode_toggled / on_erase_mode_toggled / on_update_mode_toggled
\* with checked = True: _set_mode(m)
SetMode(m) ==
    /\ Running
    /\ mode' = m
    /\ is_box_started' = FALSE
    /\ boxes' = ClearStatus(boxes)
    /\ ev' = Ev("_set_mode", m, 0, 0)
    /\ UNCHANGED <<projectLoaded, labels, currentLabel, yaml, anchor,
                   selected_box_id, current_label_id, files, current_index,
                   imageDims, labelSize, xform, indexes>>

\* faulty first click: the box under the pointer is marked, the box that
\* was selected before keeps its mark
FirstClickKeepsMarks(p) ==
    LET hit == GetBoxAt(xform, boxes, p)
    IN  IF hit # 0
        THEN /\ boxes' = [boxes EXCEPT ![hit].status = TRUE]
             /\ selected_box_id' = boxes[hit].id
             /\ ev' = Ev("mousePressEvent", "selected", 0, 0)
             /\ UNCHANGED <<is_box_started, anchor>>
        ELSE /\ is_box_started' = TRUE
             /\ anchor' = p
             /\ boxes' = ClearStatus(boxes)
             /\ selected_box_id' = NoId
             /\ ev' = Ev("mousePressEvent", "anchored", 0, 0)

\* first click of mousePressEvent: select the box under the pointer, or
\* anchor a new box
FirstClick(p) ==
    LET hit == GetBoxAt(xform, boxes, p)
    IN  IF hit # 0
        THEN /\ boxes' = [i \in 1..Len(boxes) |->
                             [boxes[i] EXCEPT !.status = (i = hit)]]
             /\ selected_box_id' = boxes[hit].id
             /\ ev' = Ev("mousePressEvent", "selected", 0, 0)
             /\ UNCHANGED <<is_box_started, anchor>>
        ELSE /\ is_box_started' = TRUE
             /\ anchor' = p
             /\ boxes' = ClearStatus(boxes)
             /\ selected_box_id' = NoId
             /\ ev' = Ev("mousePressEvent", "anchored", 0, 0)

\* faulty second click: a box that is too small leaves the drawing anchored
SecondClickKeepsAnchor(p) ==
    LET start_coords == ToImage(xform, anchor)
        end_coords == ToImage(xform, p)
        r == RectOf(start_coords, end_coords)
        created == /\ start_coords # NoPoint
                   /\ end_coords # NoPoint
                   /\ AcceptsBox(r.w, r.h)
    IN  /\ IF created
           THEN /\ Len(boxes) < MaxBoxes
                /\ is_box_started' = FALSE
                /\ boxes' = Append(boxes,
                       Box(NewId(BoxIds(boxes) \cup {selected_box_id}),
                           r.x, r.y, r.w, r.h, current_label_id))
                /\ ev' = Ev("mousePressEvent", "created", 0, 0)
           ELSE /\ boxes' = boxes
                /\ is_box_started' = TRUE
                /\ ev' = Ev("mousePressEvent", "discarded", 0, 0)
        /\ UNCHANGED <<anchor, selected_box_id>>

\* second click of mousePressEvent: finalize or discard the box
SecondClick(p) ==
    LET start_coords == ToImage(xform, anchor)
        end_coords == ToImage(xform, p)
        r == RectOf(start_coords, end_coords)
        created == /\ start_coords # NoPoint
                   /\ end_coords # NoPoint
                   /\ AcceptsBox(r.w, r.h)
    IN  /\ is_box_started' = FALSE
        /\ IF created
           THEN /\ Len(boxes) < MaxBoxes
                /\ boxes' = Append(boxes,
                       Box(NewId(BoxIds(boxes) \cup {selected_box_id}),
                           r.x, r.y, r.w, r.h, current_label_id))
                /\ ev' = Ev("mousePressEvent", "created", 0, 0)
           ELSE /\ boxes' = boxes
                /\ ev' = Ev("mousePressEvent", "discarded", 0, 0)
        /\ UNCHANGED <<anchor, selected_box_id>>

\* mousePressEvent at widget position p with the given button
MousePressEvent(p, button) ==
    /\ Running
    /\ p[1] < labelSize[1] /\ p[2] < labelSize[2]
    /\ IF mode # "BOX"
       THEN /\ is_box_started' = FALSE
            /\ ev' = Ev("mousePressEvent", "ignored_mode", 0, 0)
            /\ UNCHANGED <<boxes, anchor, selected_box_id>>
       ELSE IF button # LeftButton
       THEN /\ ev' = Ev("mousePressEvent", "ignored_button", 0, 0)
            /\ UNCHANGED <<boxes, is_box_started, anchor, selected_box_id>>
       ELSE IF ~InImage(ImageLoaded, xform, p)
       THEN /\ ev' = Ev("mousePressEvent", "outside", 0, 0)
            /\ UNCHANGED <<boxes, is_box_started, anchor, selected_box_id>>
       ELSE IF ~is_box_started
       THEN FirstClick(p)
       ELSE SecondClick(p)
    /\ UNCHANGED <<projectLoaded, labels, currentLabel, yaml, mode,
                   current_label_id, files, current_index, imageDims,
                   labelSize, xform, indexes>>

\* CanvasWidget.reset_current_drawing: the drawing in progress is dropped
ResetCurrentDrawing ==
    /\ is_box_started' = FALSE

\* faulty Escape handling: the cancel is honoured outside BOX mode only
KeyPressEscapeOutsideBox ==
    /\ Running
    /\ IF mode # "BOX"
       THEN /\ ResetCurrentDrawing
            /\ ev' = Ev("keyPressEvent", "cancelled", 0, 0)
       ELSE /\ ev' = Ev("keyPressEvent", "ignored", 0, 0)
            /\ UNCHANGED is_box_started
    /\ UNCHANGED <<projectLoaded, labels, currentLabel, yaml, mode, boxes,
                   anchor, selected_box_id, current_label_id, files,
                   current_index, imageDims, labelSize, xform, indexes>>

\* keyPressEvent with Qt.Key_Escape
KeyPressEscape ==
    /\ Running
    /\ IF mode = "BOX"
       THEN /\ ResetCurrentDrawing
            /\ ev' = Ev("keyPressEvent", "cancelled", 0, 0)
       ELSE /\ ev' = Ev("keyPressEvent", "ignored", 0, 0)
            /\ UNCHANGED is_box_started
    /\ UNCHANGED <<projectLoaded, labels, currentLabel, yaml, mode, boxes,
                   anchor, selected_box_id, current_label_id, files,
                   current_index, imageDims, labelSize, xform, indexes>>

----------------------------------------------------------------------------
(* Specifications *)

\* pointer positions used while browsing the project
SessionPoints == {<<0, 0>>, <<12, 0>>, <<6, 6>>}

\* a session: browsing, drawing, deleting labels, closing
Next ==
    \/ LoadExistingProject
    \/ \E d \in {"+", "-"} : NavigateImage(d)
    \/ \E typed \in {-1, 0, 1, 2} : GoToImage(typed)
    \/ CloseEvent
    \/ \E i \in 0..(MaxLabels - 1) : OnLabelButtonClicked(i)
    \/ \E i \in -1..MaxLabels : DeleteLabel(i)
    \/ \E p \in SessionPoints : MousePressEvent(p, LeftButton)

Spec == Init /\ [][Next]_vars

\* the canvas: modes, both buttons, resizes and the deferred render
NextCanvas ==
    \/ LoadExistingProject
    \/ \E m \in Modes : SetMode(m)
    \/ KeyPressEscape
    \/ \E size \in DisplaySizes : ResizeEvent(size)
    \/ HandleDelayedResize
    \/ \E i \in 0..(MaxLabels - 1) : OnLabelButtonClicked(i)
    \/ \E p \in Points, b \in {LeftButton, RightButton} : MousePressEvent(p, b)

SpecCanvas == Init /\ [][NextCanvas]_vars

\* label deletion, renaming, adding and detector import over a project
\* with three labels, every label index and every kind of malformed line
\* present in the annotation files
RegistryYaml == <<"aromatics", "esters", "ketones">>

RegistryFiles ==
    <<File(<<LineFor(2, 0, 0, 6, 6), Line("badlabel", 0, 0, 0, 0, 0)>>),
      File(<<LineFor(0, 0, 0, 6, 6),
             LineFor(1, 6, 6, 6, 6),
             Line("badcoord", 2, 0, 0, 0, 0),
             Line("short", 1, 187500, 0, 0, 0),
             LineFor(2, 0, 6, 8, 8),
             LineFor(1, 0, 0, 6, 6)>>),
      Absent>>

InitRegistry ==
    /\ InitApp
    /\ yaml = RegistryYaml
    /\ files = [i \in 0..(Len(RegistryFiles) - 1) |-> RegistryFiles[i + 1]]
    /\ imageDims = [i \in 0..(Len(RegistryFiles) - 1) |-> ProjectImageDim]

\* label lists of the detector's dataset.yaml
DetectorLists ==
    {<<"esters", "ketones">>, <<"ketones", "aromatics">>, <<"aromatics">>}

NextRegistry ==
    \/ LoadExistingProject
    \/ \E i \in 0..(MaxLabels - 1) : OnLabelButtonClicked(i)
    \/ \E n \in Names : OnAddLabelClicked(n)
    \/ \E i \in 0..(MaxLabels - 1), n \in Names : OnEditLabelAccepted(i, n)
    \/ \E i \in -1..MaxLabels : DeleteLabel(i)
    \/ \E d \in DetectorLists : OnLoadModelClicked(d)

SpecRegistry == InitRegistry /\ [][NextRegistry]_vars

\* detector import: a project with two labels, a detector merged into it,
\* predictions imported, labels deleted afterwards
Detections ==
    {Detection(3, 3, 6, 6, c) : c \in 0..1} \cup {Detection(10, 10, 8, 8, 1)}

DetectorResults ==
    {<<>>} \cup {<<d>> : d \in Detections}
           \cup {<<d, e>> : d \in Detections, e \in Detections}

NextDetector ==
    \/ LoadExistingProject
    \/ \E d \in DetectorLists : OnLoadModelClicked(d)
    \/ \E dets \in DetectorResults : OnClickPredict(dets)
    \/ \E i \in 0..(MaxLabels - 1) : DeleteLabel(i)

SpecDetector == Init /\ [][NextDetector]_vars

\* the collection's interface used on an open project: boxes are loaded,
\* drawn, selected, updated and removed
BoxIdArgs == 0..MaxBoxes

\* keyword arguments of update_box: none, a label, a position, a size
Updates ==
    {<<>>} \cup [label : {1}] \cup [x : {6}, y : {6}] \cup [w : {8}, h : {8}]

NextBoxes ==
    \/ LoadExistingProject
    \/ \E p \in SessionPoints : MousePressEvent(p, LeftButton)
    \/ \E m \in ListMutations : GetAllBoxesCall(m)
    \/ \E id \in BoxIdArgs : RemoveBoxCall(id)
    \/ \E id \in BoxIdArgs, u \in Updates : UpdateBoxCall(id, u)
    \/ DeleteSelectedBox

SpecBoxes == Init /\ [][NextBoxes]_vars

\* the coordinate transform: an image shown in a widget that is resized,
\* screen points converted to image points
TransformDims == {<<14, 7>>, <<16, 16>>}

TransformSizes == {<<18, 7>>, <<16, 16>>, <<32, 8>>}

\* screen points; the only whole-number quotient under an inexact scale
\* among them is 9 / (18 / 14), which the double division does give as
\* 6.999999999999999
TransformPoints ==
    {<<x, y>> : x \in {-1, 0, 9, 17, 18, 31}, y \in {-1, 0, 3, 7}}

InitTransform ==
    /\ projectLoaded = TRUE
    /\ labels = InitYaml
    /\ currentLabel = 0
    /\ yaml = InitYaml
    /\ mode = "BOX"
    /\ boxes = <<>>
    /\ is_box_started = FALSE
    /\ anchor = <<0, 0>>
    /\ selected_box_id = NoId
    /\ current_label_id = 0
    /\ current_index = 0
    /\ indexes = <<>>
    /\ ev = Ev("init", "", 0, 0)
    /\ files = [i \in {0} |-> Absent]
    /\ labelSize = <<16, 16>>
    /\ \E d \in TransformDims :
          /\ imageDims = [i \in {0} |-> d]
          /\ xform = Render(labelSize, d)

NextTransform ==
    \/ \E size \in TransformSizes : ResizeEvent(size)
    \/ HandleDelayedResize
    \/ \E p \in TransformPoints : ScreenToImageCall(p)

SpecTransform == InitTransform /\ [][NextTransform]_vars

\* label deletion over the three-label project while file reads and writes
\* can fail
FaultMaps ==
    {fl \in [0..(Len(RegistryFiles) - 1) -> FaultKinds] :
        \A i \in 0..(Len(RegistryFiles) - 1) :
           ~RegistryFiles[i + 1].exists => fl[i] = "none"}

NextFaults ==
    \/ LoadExistingProject
    \/ \E i \in -1..MaxLabels : DeleteLabel(i)
    \/ \E i \in 0..(MaxLabels - 1), fl \in FaultMaps : DeleteLabelIO(i, fl)

SpecFaults == InitRegistry /\ [][NextFaults]_vars

\* a project folder whose dataset.yaml lists no names (names: {}):
\* get_labels_from_yaml stores the empty list and returns True
InitUnlabelled ==
    /\ InitApp
    /\ yaml = <<>>
    /\ files = [i \in 0..(Len(InitFiles) - 1) |-> InitFiles[i + 1]]
    /\ imageDims = [i \in 0..(Len(InitFiles) - 1) |-> ProjectImageDim]

SpecUnlabelled == InitUnlabelled /\ [][NextRegistry]_vars

\* the annotation codec: a project opened on one image of some size, with
\* boxes drawn inside it, saved and loaded again
CodecDims == {<<10, 7>>, <<128, 96>>, <<640, 448>>}

\* rectangles with integer corners lying inside a W x H image
CodecRects(W, H) ==
    {r \in [x : {0, 3}, y : {0, 1}, w : {6, 7}, h : {6}] :
        r.x >= 0 /\ r.y >= 0 /\ r.x + r.w < W /\ r.y + r.h < H}

InitCodecOver(dims) ==
    /\ projectLoaded = TRUE
    /\ labels = InitYaml
    /\ currentLabel = 0
    /\ yaml = InitYaml
    /\ mode = "BOX"
    /\ is_box_started = FALSE
    /\ anchor = <<0, 0>>
    /\ selected_box_id = NoId
    /\ current_label_id = 0
    /\ current_index = 0
    /\ indexes = <<>>
    /\ ev = Ev("init", "", 0, 0)
    /\ files = [i \in {0} |-> Absent]
    /\ \E d \in dims :
          /\ imageDims = [i \in {0} |-> d]
          /\ labelSize = d
          /\ xform = Render(d, d)
          /\ \E r1, r2 \in CodecRects(d[1], d[2]) :
                \E n \in 1..2, l \in 0..1 :
                   boxes = SubSeq(<<Box(0, r1.x, r1.y, r1.w, r1.h, l),
                                    Box(1, r2.x, r2.y, r2.w, r2.h, 0)>>, 1, n)

InitCodec == InitCodecOver(CodecDims)

NextCodec ==
    \/ \E typed \in {0} : GoToImage(typed)
    \/ CloseEvent

SpecCodec == InitCodec /\ [][NextCodec]_vars

\* the same round trip, repeated, on an image 13 pixels wide: no width up
\* to 12 divided by 13 has a 6-decimal expansion
NarrowDims == {<<13, 7>>}

InitNarrow == InitCodecOver(NarrowDims)

SpecNarrow == InitNarrow /\ [][NextCodec]_vars

----------------------------------------------------------------------------
(* Properties *)

\* a step of one of the handlers that save the annotations of the current
\* image: navigation, go-to-image, window close
SaveTriggered ==
    \/ \E d \in {"+", "-"} : NavigateImage(d)
    \/ \E typed \in {-1, 0, 1, 2} : GoToImage(typed)
    \/ CloseEvent

\* C1: a save triggered while the in-memory collection is empty leaves an
\* annotation file that already has content unchanged.
C1_EmptySaveKeepsFile ==
    [][(/\ SaveTriggered
        /\ projectLoaded
        /\ boxes = <<>>
        /\ files[current_index].exists
        /\ files[current_index].lines # <<>>)
       => files'[current_index] = files[current_index]]_vars

\* the positions of the lines of old that delete_label(k) must keep
Survivors(old, k) ==
    {i \in 1..Len(old) : ~(Reindexable(old[i]) /\ old[i].label = k)}

\* new holds the surviving lines of old in their original order, a label
\* index above k lowered by one and every other line as it was
ReindexedFrom(old, new, k) ==
    /\ Len(new) = Cardinality(Survivors(old, k))
    /\ \A i \in Survivors(old, k) :
          LET r == Cardinality({j \in Survivors(old, k) : j <= i})
          IN  IF Reindexable(old[i]) /\ old[i].label > k
              THEN new[r] = [old[i] EXCEPT !.label = old[i].label - 1]
              ELSE new[r] = old[i]

\* a step of delete_label(k) on a registry of at least two labels
DeletesLabel(k) ==
    /\ DeleteLabel(k)
    /\ Len(labels) >= 2
    /\ k \in 0..(Len(labels) - 1)

C3_LastLabelKept ==
    [][\A k \in -1..MaxLabels :
         (DeleteLabel(k) /\ Len(labels) = 1) =>
            /\ labels' = labels
            /\ currentLabel' = currentLabel
            /\ yaml' = yaml
            /\ files' = files
            /\ boxes' = boxes
      ]_vars

\* a deletion was refused on a one-label registry, boxes in memory
C3_Witness ==
    /\ ev.op = "delete_label" /\ ev.res = "rejected"
    /\ Len(labels) = 1
    /\ boxes # <<>>

\* the image-space rectangle spanned by two image points
SpannedBy(a, q) ==
    [x |-> IF a[1] <= q[1] THEN a[1] ELSE q[1],
     y |-> IF a[2] <= q[2] THEN a[2] ELSE q[2],
     w |-> IF a[1] <= q[1] THEN q[1] - a[1] ELSE a[1] - q[1],
     h |-> IF a[2] <= q[2] THEN q[2] - a[2] ELSE a[2] - q[2]]

\* a left-button press inside the displayed image while a box is anchored
SecondClickAt(p) ==
    /\ mode = "BOX"
    /\ is_box_started
    /\ InImage(ImageLoaded, xform, p)
    /\ MousePressEvent(p, LeftButton)

\* C4: with (x1,y1) the anchor and (x2,y2) the finalize point in image
\* space, the second click appends the box {min x, min y, |dx|, |dy|} exactly
\* when |dx| > 5 and |dy| > 5, and otherwise leaves the collection unchanged.
C4_TwoClickGeometry ==
    [][\A p \in Points :
         SecondClickAt(p) =>
           LET r == SpannedBy(ToImage(xform, anchor), ToImage(xform, p))
               n == Len(boxes)
           IN  IF r.w > 5 /\ r.h > 5
               THEN /\ Len(boxes') = n + 1
                    /\ SubSeq(boxes', 1, n) = boxes
                    /\ boxes'[n + 1].x = r.x /\ boxes'[n + 1].y = r.y
                    /\ boxes'[n + 1].w = r.w /\ boxes'[n + 1].h = r.h
               ELSE boxes' = boxes
      ]_vars

\* a box drawn from anchor (12,0) to finalize point (6,6) is in the
\* collection, its corner normalised to the minimum
C4_Witness ==
    /\ ev.op = "mousePressEvent" /\ ev.res = "created"
    /\ anchor = <<12, 0>>
    /\ \E i \in 1..Len(boxes) :
          boxes[i].x = 6 /\ boxes[i].y = 0 /\ boxes[i].w = 6 /\ boxes[i].h = 6

\* C5: reconciliation maps detector index i to the position of D[i] in the
\* resulting project list: a name already in P keeps its existing index, an
\* unseen name is appended in detector order and maps to the new trailing
\* index; P = [aromatics, esters], D = [esters, ketones] gives {0:1, 1:2} and
\* P = [aromatics, esters, ketones].
C5_Reconciliation ==
    [][\A D \in DetectorLists :
         OnLoadModelClicked(D) =>
           LET P == labels
               unseen == {i \in 1..Len(D) :
                            /\ \A j \in 1..Len(P) : P[j] # D[i]
                            /\ \A j \in 1..(i - 1) : D[j] # D[i]}
           IN  /\ Len(indexes') = Len(D)
               /\ Len(labels') = Len(P) + Cardinality(unseen)
               /\ SubSeq(labels', 1, Len(P)) = P
               /\ \A i \in 1..Len(D) :
                     /\ indexes'[i] \in 0..(Len(labels') - 1)
                     /\ labels'[indexes'[i] + 1] = D[i]
                     /\ \A j \in 1..indexes'[i] : labels'[j] # D[i]
                     /\ i \in unseen =>
                          indexes'[i] = Len(P)
                                        + Cardinality({j \in unseen : j < i})
               /\ (P = <<"aromatics", "esters">> /\ D = <<"esters", "ketones">>)
                    => /\ indexes' = <<1, 2>>
                       /\ labels' = <<"aromatics", "esters", "ketones">>
      ]_vars

\* the reconciliation of the example has run: ketones was appended
C5_Witness ==
    /\ ev.op = "on_load_model_clicked"
    /\ indexes = <<1, 2>>
    /\ labels = <<"aromatics", "esters", "ketones">>
    /\ yaml = labels

\* C6: saving a collection whose boxes lie inside the image and loading the
\* file with the same image dimensions gives the same number of boxes, in
\* the same order, with the same labels, each of x, y, width, height within
\* 1 pixel of the original.
C6_RoundTrip ==
    [][(GoToImage(0) /\ projectLoaded) =>
         /\ Len(boxes') = Len(boxes)
         /\ \A i \in 1..Len(boxes) :
               /\ boxes'[i].label = boxes[i].label
               /\ boxes'[i].x - boxes[i].x \in -1..1
               /\ boxes'[i].y - boxes[i].y \in -1..1
               /\ boxes'[i].w - boxes[i].w \in -1..1
               /\ boxes'[i].h - boxes[i].h \in -1..1
      ]_vars

\* two boxes came back from the file, one of them a pixel narrower than any
\* box that was drawn
C6_Witness ==
    /\ ev.op = "go_to_image"
    /\ Len(boxes) = 2
    /\ Len(files[0].lines) = 2
    /\ boxes[1].w = 5
    /\ boxes[1].label = 1

\* a left-button press, in the given mode, on a point covered by a box
PressOnBox(p, m) ==
    /\ mode = m
    /\ InImage(ImageLoaded, xform, p)
    /\ GetBoxAt(xform, boxes, p) # 0
    /\ MousePressEvent(p, LeftButton)

\* C7: in ERASE mode a pointer-down on a point covered by a box removes the
\* box the hit-test returns: one box fewer, the others unchanged.
C7_EraseRemovesBox ==
    [][\A p \in Points :
         PressOnBox(p, "ERASE") =>
           LET hit == GetBoxAt(xform, boxes, p)
           IN  /\ Len(boxes') = Len(boxes) - 1
               /\ \A i \in 1..Len(boxes') :
                     boxes'[i] = IF i < hit THEN boxes[i] ELSE boxes[i + 1]
      ]_vars

\* C8: in UPDATE mode a pointer-down on a point covered by a box sets the
\* label of the box the hit-test returns to CURRENT_LABEL and changes
\* nothing else in the collection.
C8_UpdateRelabelsBox ==
    [][\A p \in Points :
         PressOnBox(p, "UPDATE") =>
           LET hit == GetBoxAt(xform, boxes, p)
           IN  boxes' = [boxes EXCEPT ![hit].label = currentLabel]
      ]_vars

\* C9 (amended): in BOX mode every left-button pointer-down inside the
\* displayed image area, received while a box is anchored, ends the drawing,
\* whether or not a box is created; a press with another button or outside
\* the displayed image area leaves the drawing anchored and the collection
\* as it was.
C9_SecondClickEndsDrawing ==
    [][\A p \in Points, b \in {LeftButton, RightButton} :
         (MousePressEvent(p, b) /\ mode = "BOX" /\ is_box_started) =>
            IF b = LeftButton /\ InImage(ImageLoaded, xform, p)
            THEN ~is_box_started'
            ELSE is_box_started' /\ boxes' = boxes /\ anchor' = anchor
      ]_vars

\* C9 as stated: every pointer-down while anchored ends the drawing,
\* wherever the pointer is.
C9_AnyPressEndsDrawing ==
    [][\A p \in Points, b \in {LeftButton, RightButton} :
         (MousePressEvent(p, b) /\ mode = "BOX" /\ is_box_started)
            => ~is_box_started']_vars

\* a second click has ended a drawing without creating a box
C9_Witness ==
    /\ ev.op = "mousePressEvent" /\ ev.res = "discarded"
    /\ mode = "BOX"
    /\ ~is_box_started

\* C10: a box created by the two-click gesture carries CURRENT_LABEL as of
\* the second click.
C10_NewBoxHasCurrentLabel ==
    [][\A p \in Points :
         (SecondClickAt(p) /\ Len(boxes') = Len(boxes) + 1)
            => boxes'[Len(boxes')].label = currentLabel
      ]_vars

\* C11: after every mode switch the drawing machine is idle and no box of
\* the collection is marked selected.
C11_ModeSwitchClears ==
    [][\A m \in Modes :
         SetMode(m) =>
            /\ mode' = m
            /\ ~is_box_started'
            /\ Len(boxes') = Len(boxes)
            /\ \A i \in 1..Len(boxes') : ~boxes'[i].status
      ]_vars

\* a mode switch has run while a box was selected: its flag is cleared
C11_Witness ==
    /\ ev.op = "_set_mode"
    /\ selected_box_id \in BoxIds(boxes)
    /\ \A i \in 1..Len(boxes) : ~boxes[i].status

\* C12: Escape in BOX mode while a box is anchored returns the machine to
\* idle, leaves the collection unchanged, and the pointer-down that follows
\* is handled as a first click (it selects or anchors, it creates nothing).
C12_EscapeCancels ==
    [][/\ (KeyPressEscape /\ mode = "BOX" /\ is_box_started) =>
             (~is_box_started' /\ boxes' = boxes /\ mode' = mode)
       /\ \A p \in Points :
             (/\ ev.op = "keyPressEvent" /\ ev.res = "cancelled"
              /\ InImage(ImageLoaded, xform, p)
              /\ MousePressEvent(p, LeftButton)) =>
                /\ Len(boxes') = Len(boxes)
                /\ ev'.res \in {"selected", "anchored"}
                /\ is_box_started' = (GetBoxAt(xform, boxes, p) = 0)
      ]_vars

\* a drawing was cancelled: the anchor of the cancelled drawing is still
\* stored, the machine is idle
C12_Witness ==
    /\ ev.op = "keyPressEvent" /\ ev.res = "cancelled"
    /\ anchor = <<12, 0>>
    /\ ~is_box_started
    /\ boxes # <<>>

\* C13: in BOX mode with no drawing in progress, a pointer-down on an
\* existing box marks exactly that box selected and every other box not
\* selected; the machine stays idle and no box is added, removed or changed
\* otherwise.
C13_ClickSelectsBox ==
    [][\A p \in Points :
         (PressOnBox(p, "BOX") /\ ~is_box_started) =>
            LET hit == GetBoxAt(xform, boxes, p)
            IN  /\ ~is_box_started'
                /\ Len(boxes') = Len(boxes)
                /\ \A i \in 1..Len(boxes) :
                      /\ boxes'[i].status = (i = hit)
                      /\ [boxes'[i] EXCEPT !.status = FALSE]
                            = [boxes[i] EXCEPT !.status = FALSE]
                /\ selected_box_id' = boxes[hit].id
      ]_vars

\* the newer of two boxes has been selected by a click, the older one is
\* not marked
C13_Witness ==
    /\ ev.op = "mousePressEvent" /\ ev.res = "selected"
    /\ Len(boxes) = 2
    /\ boxes[2].status /\ ~boxes[1].status
    /\ selected_box_id = boxes[2].id

\* the screen rectangle of box b contains the pointer position p, bounds
\* included
OnScreenWithin(b, p) ==
    LET left == ((b.x * xform.sw) \div xform.ow) + xform.ox
        top == ((b.y * xform.sh) \div xform.oh) + xform.oy
        right == (((b.x + b.w) * xform.sw) \div xform.ow) + xform.ox
        bottom == (((b.y + b.h) * xform.sh) \div xform.oh) + xform.oy
    IN  left <= p[1] /\ p[1] <= right /\ top <= p[2] /\ p[2] <= bottom

\* C14: the hit-test returns, among the boxes whose screen rectangle
\* contains the pointer (bounds included), the most recently added one, and
\* returns none exactly when no box contains the pointer.
C14_HitTestTopmost ==
    \A p \in Points :
       LET hit == GetBoxAt(xform, boxes, p)
           under == {i \in 1..Len(boxes) : OnScreenWithin(boxes[i], p)}
       IN  /\ hit = 0 <=> under = {}
           /\ hit # 0 => (hit \in under /\ \A j \in under : j <= hit)

\* two boxes lie under the point (6,6), on the edge of the older one; the
\* hit-test returns the newer one
C14_Witness ==
    /\ Len(boxes) = 2
    /\ boxes[1] # boxes[2]
    /\ OnScreenWithin(boxes[1], <<6, 6>>)
    /\ OnScreenWithin(boxes[2], <<6, 6>>)
    /\ boxes[1].x + boxes[1].w = 6
    /\ GetBoxAt(xform, boxes, <<6, 6>>) = 2

\* the lines of a file that load_annotations_for_current_image turns into
\* boxes, in file order
RECURSIVE LoadableLines(_)
LoadableLines(lines) ==
    IF lines = <<>> THEN <<>>
    ELSE (IF Loadable(Head(lines)) THEN <<Head(lines)>> ELSE <<>>)
         \o LoadableLines(Tail(lines))

\* bxs is what loading file gives: one box per loadable line, in order, with
\* the line's label and a rectangle the line denormalises to
LoadedFrom(bxs, file, W, H) ==
    LET ls == IF file.exists THEN LoadableLines(file.lines) ELSE <<>>
    IN  /\ Len(bxs) = Len(ls)
        /\ \A i \in 1..Len(ls) :
              /\ bxs[i].label = ls[i].label
              /\ [x |-> bxs[i].x, y |-> bxs[i].y, w |-> bxs[i].w, h |-> bxs[i].h]
                    \in Denorm(ls[i], W, H)

\* C15: after delete_label(k) has completed, the in-memory collection of
\* the displayed image is what loading the image's rewritten annotation file
\* gives: the same boxes in the same order with the same labels.
C15_MemoryMatchesFileAfterDelete ==
    [][\A k \in 0..(MaxLabels - 1) :
         DeletesLabel(k) =>
            LoadedFrom(boxes', files'[current_index], xform.ow, xform.oh)
      ]_vars

\* a label was deleted and the box in memory carries the shifted index of
\* the rewritten file
C15_Witness ==
    /\ ev.op = "delete_label" /\ ev.res = "done" /\ ev.b > 0
    /\ Len(boxes) = 1
    /\ boxes[1].label = 0
    /\ files[current_index].lines[1].label = 0

\* the labels of the lines, over all annotation files, that have 5 fields
\* and an integer label: <<file, position, label>> triples
LabelledLines(fs) ==
    {t \in UNION {{<<f, i, fs[f].lines[i].label>> : i \in 1..Len(fs[f].lines)} :
                     f \in DOMAIN fs} :
        fs[t[1]].exists /\ Reindexable(fs[t[1]].lines[t[2]])}

\* C16: delete_label(idx) reports removedCount, the number of annotation
\* lines over all files whose label was idx before the call, and
\* shiftedCount, the number whose label was greater than idx.
C16_DeleteCounts ==
    [][\A k \in 0..(MaxLabels - 1) :
         DeletesLabel(k) =>
            /\ ev'.res = "done"
            /\ ev'.a = Cardinality({t \in LabelledLines(files) : t[3] = k})
            /\ ev'.b = Cardinality({t \in LabelledLines(files) : t[3] > k})
      ]_vars

\* label 1 of three was deleted: 2 lines removed and 3 shifted, summed over
\* two files
C16_Witness ==
    /\ ev.op = "delete_label" /\ ev.res = "done"
    /\ ev.a = 2 /\ ev.b = 3
    /\ Len(labels) = 2
    /\ \A f \in {0, 1} : files[f].lines # <<>>

C18_NamesDistinct ==
    \A i, j \in 1..Len(labels) : i # j => labels[i] # labels[j]

\* C19: every box imported from detector results carries the project index
\* its detector class is mapped to by the reconciler, and that index is an
\* index of the project's label list.
C19_ImportedLabelsMapped ==
    [][\A dets \in DetectorResults :
         OnClickPredict(dets) =>
            \A i \in 1..Len(dets) :
               LET b == boxes'[Len(boxes) + i]
               IN  /\ b.label = indexes[dets[i].cls + 1]
                   /\ b.label \in 0..(Len(labels) - 1)
      ]_vars

\* C20: the in-memory collection is scoped to one image: after a project
\* was loaded and after a navigation (next, previous, go-to) it holds
\* exactly the boxes of the displayed image's annotation file, none from an
\* image displayed before or from a project open before.
C20_CollectionScopedToImage ==
    [][(\/ LoadExistingProject
        \/ \E d \in {"+", "-"} : NavigateImage(d)
        \/ \E t \in -1..NumImages : GoToImage(t))
       /\ projectLoaded'
       => LoadedFrom(boxes', files'[current_index'], xform'.ow, xform'.oh)
      ]_vars

\* a navigation handler of an open project has run
Navigates ==
    /\ projectLoaded
    /\ \/ \E d \in {"+", "-"} : NavigateImage(d)
       \/ \E t \in -1..NumImages : GoToImage(t)

\* file holds bxs as written by save_current_annotations: one line per box,
\* in order
SavedAs(file, bxs, W, H) ==
    /\ file.exists
    /\ Len(file.lines) = Len(bxs)
    /\ \A i \in 1..Len(bxs) : file.lines[i] \in SaveLine(bxs[i], W, H)

C22_OutOfRangeRejected ==
    [][\A k \in -1..MaxLabels :
         DeleteLabel(k) /\ (k < 0 \/ k >= Len(labels)) =>
            /\ UNCHANGED <<files, labels, currentLabel, yaml, boxes>>
            /\ ev'.res = "rejected"
      ]_vars

\* C23: when, during delete_label(k), reading or rewriting some annotation
\* files fails, every other annotation file is still processed: it holds
\* the surviving lines of its old content, reindexed, in order.
C23_FailureDoesNotAbortBatch ==
    [][ev'.res = "error_logged" =>
         \A k \in 0..(MaxLabels - 1), fl \in FaultMaps :
            DeleteLabelIO(k, fl) =>
               \A f \in DOMAIN files :
                  fl[f] = "none" =>
                     /\ files'[f].exists = files[f].exists
                     /\ ReindexedFrom(files[f].lines, files'[f].lines, k)
      ]_vars

\* the first file failed and is as it was before any delete; the second
\* one was rewritten
C23_Witness ==
    /\ ev.op = "delete_label" /\ ev.res = "error_logged"
    /\ Len(labels) = 2
    /\ files[0] = RegistryFiles[1]
    /\ files[1].exists
    /\ Len(files[1].lines) < Len(RegistryFiles[2].lines)

\* C24: every box of the collection has width > 0 and height > 0, after any
\* sequence of draw gestures, loads from annotation files, updates and
\* label deletes.
C24_BoxesHaveArea ==
    \A i \in 1..Len(boxes) : boxes[i].w > 0 /\ boxes[i].h > 0

\* C25: while a project is open the label list is never empty, after the
\* load and after any sequence of Append, Rename, Delete and reconciliation.
C25_RegistryNeverEmpty ==
    projectLoaded => labels # <<>>

Without(bxs, i) ==
    [j \in 1..(Len(bxs) - 1) |-> IF j < i THEN bxs[j] ELSE bxs[j + 1]]

\* fields of a Box Entity
BoxFields == {"id", "x", "y", "w", "h", "label", "status"}

\* C27: remove_box(id) and update_box(id, ...) with an id that is not in the
\* collection return False and leave the collection as it is; with an id
\* that is present they return True, remove exactly that box / change
\* exactly the passed fields of that box, and leave every other box, and
\* the order, unchanged.
C27_RemoveUpdateById ==
    [][/\ \A id \in BoxIdArgs :
            (ev'.op = "remove_box" /\ RemoveBoxCall(id)) =>
               IF id \notin BoxIds(boxes)
               THEN ev'.res = "False" /\ boxes' = boxes
               ELSE /\ ev'.res = "True"
                    /\ \E i \in 1..Len(boxes) :
                          boxes[i].id = id /\ boxes' = Without(boxes, i)
                    /\ id \notin BoxIds(boxes')
       /\ \A id \in BoxIdArgs, u \in Updates :
            (ev'.op = "update_box" /\ UpdateBoxCall(id, u)) =>
               IF id \notin BoxIds(boxes)
               THEN ev'.res = "False" /\ boxes' = boxes
               ELSE /\ ev'.res = "True"
                    /\ Len(boxes') = Len(boxes)
                    /\ \A i \in 1..Len(boxes) :
                          IF boxes[i].id # id THEN boxes'[i] = boxes[i]
                          ELSE \A f \in BoxFields :
                                  boxes'[i][f] = IF f \in DOMAIN u THEN u[f]
                                                 ELSE boxes[i][f]
      ]_vars

\* the first of two boxes was removed by id: the one left is the one that
\* was second
C27_Witness ==
    /\ ev.op = "remove_box" /\ ev.res = "True"
    /\ Len(boxes) = 1
    /\ boxes[1].id = 1

\* C29: delete_selected_box returns True if and only if a box was removed
\* from the collection; with nothing selected, or with a selected id that is
\* no longer in the collection, it returns False and the collection is
\* unchanged.
C29_DeleteSelectedReports ==
    [][DeleteSelectedBox =>
         /\ (ev'.res = "True") <=> (Len(boxes') = Len(boxes) - 1)
         /\ (selected_box_id = NoId \/ selected_box_id \notin BoxIds(boxes))
               => (ev'.res = "False" /\ boxes' = boxes)
      ]_vars

\* r is floor(relative * original / scaled) clamped into 0..original-1
ExactFloor(r, relative, scaled, original) ==
    r = Max(0, Min((relative * original) \div scaled, original - 1))

\* r is that, or the clamp of one less where the quotient is a whole number
\* and the scale is not an exact double
FloatFloor(r, relative, scaled, original) ==
    \/ ExactFloor(r, relative, scaled, original)
    \/ /\ (relative * original) % scaled = 0
       /\ ~ExactScale(scaled, original)
       /\ r = Max(0, Min((relative * original) \div scaled - 1, original - 1))

\* a conversion of p on a rendered image of positive size
Converts(p) ==
    /\ xform.ow > 0 /\ xform.oh > 0 /\ xform.sw > 0 /\ xform.sh > 0
    /\ ScreenToImageCall(p)

\* C28 (amended): screen_to_image_coords returns None exactly when
\* screen - offset is negative on an axis; otherwise it returns, per axis,
\* int((screen - offset) / scale) clamped into [0, dim-1], a pixel of the
\* image, where the floating-point quotient gives floor((screen - offset) /
\* scale) or, when that quotient is a whole number and the scale is not an
\* exact double, possibly one less.
C28_ToImage ==
    [][ev'.op = "screen_to_image_coords" =>
         \A p \in TransformPoints :
            Converts(p) =>
               LET rx == p[1] - xform.ox
                   ry == p[2] - xform.oy
               IN  /\ (ev'.res = "None") <=> (rx < 0 \/ ry < 0)
                   /\ ev'.res = "point" =>
                         /\ ev'.a \in 0..(xform.ow - 1)
                         /\ ev'.b \in 0..(xform.oh - 1)
                         /\ FloatFloor(ev'.a, rx, xform.sw, xform.ow)
                         /\ FloatFloor(ev'.b, ry, xform.sh, xform.oh)
      ]_vars

\* C28 as stated: the point returned is exactly floor((screen - offset) /
\* scale) per axis, clamped.
C28_ToImageExactFloor ==
    [][ev'.op = "screen_to_image_coords" =>
         \A p \in TransformPoints :
            Converts(p) =>
               LET rx == p[1] - xform.ox
                   ry == p[2] - xform.oy
               IN  /\ (ev'.res = "None") <=> (rx < 0 \/ ry < 0)
                   /\ ev'.res = "point" =>
                         /\ ExactFloor(ev'.a, rx, xform.sw, xform.ow)
                         /\ ExactFloor(ev'.b, ry, xform.sh, xform.oh)
      ]_vars

\* a point right of the scaled image was converted to the last column of an
\* image shown at another width
C28_Witness ==
    /\ ev.op = "screen_to_image_coords" /\ ev.res = "point"
    /\ xform.sw # xform.ow
    /\ ev.a = xform.ow - 1
    /\ ev.b = 3

----------------------------------------------------------------------------
(* Label deletion over hand-edited annotation files *)

\* annotation files with indented malformed lines and a blank line among
\* the lines of every label
MalformedFiles ==
    <<File(<<LineFor(2, 0, 0, 6, 6),
             Indented(Line("badlabel", 0, 0, 0, 0, 0)),
             LineFor(1, 0, 0, 6, 6)>>),
      File(<<LineFor(0, 0, 0, 6, 6),
             Blank,
             Line("short", 1, 187500, 0, 0, 0),
             LineFor(1, 6, 6, 6, 6),
             Indented(Line("short", 2, 0, 0, 0, 0)),
             LineFor(2, 0, 6, 8, 8)>>),
      Absent>>

InitMalformed ==
    /\ InitApp
    /\ yaml = RegistryYaml
    /\ files = [i \in 0..(Len(MalformedFiles) - 1) |-> MalformedFiles[i + 1]]
    /\ imageDims = [i \in 0..(Len(MalformedFiles) - 1) |-> ProjectImageDim]

SpecMalformed == InitMalformed /\ [][NextRegistry]_vars

\* a line with at least one field that the rewrite does not parse: fewer
\* than 5 fields, or a label field int() rejects
MalformedText(line) == line.kind \in {"short", "badlabel"}

\* a line the claim calls malformed: the blank line has no field at all
Malformed(line) == line.kind = "blank" \/ MalformedText(line)

\* the positions of the lines of old that the rewrite writes back
Written(old, k) == {i \in Survivors(old, k) : old[i].kind # "blank"}

----------------------------------------------------------------------------
(* The annotation loader over hand-edited files *)

\* CanvasWidget.clear_all_boxes
ClearAllBoxes ==
    /\ Running
    /\ boxes' = <<>>
    /\ selected_box_id' = NoId
    /\ is_box_started' = FALSE
    /\ ev' = Ev("clear_all_boxes", "", 0, 0)
    /\ UNCHANGED <<projectLoaded, labels, currentLabel, yaml, mode, anchor,
                   current_label_id, files, current_index, imageDims,
                   labelSize, xform, indexes>>

\* load_annotations_for_current_image, called on the displayed image.
\* ev.res is the value returned, or the exception that leaves the method;
\* ev.a and ev.b are the sizes of the collection before and after.
LoadAnnotationsCall ==
    /\ Running
    /\ Len(boxes) <= MaxBoxes
    /\ LET file == files[current_index]
           W == xform.ow
           H == xform.oh
           reads == ImageLoaded /\ W > 0 /\ H > 0 /\ file.exists
       IN  /\ boxes' \in LoadAnnotations(boxes, ImageLoaded, file,
                                         selected_box_id, W, H)
           /\ ev' = Ev("load_annotations",
                       IF reads /\ \E i \in 1..Len(file.lines) :
                                       Overflows(file.lines[i])
                       THEN "OverflowError"
                       ELSE BoolStr(Len(boxes') > Len(boxes)),
                       Len(boxes), Len(boxes'))
    /\ UNCHANGED <<projectLoaded, labels, currentLabel, yaml, mode,
                   is_box_started, anchor, selected_box_id, current_label_id,
                   files, current_index, imageDims, labelSize, xform, indexes>>

\* the lines a hand-edited annotation file is made of
LoaderLines ==
    {LineFor(0, 0, 0, 6, 6), LineFor(1, 6, 6, 6, 6),
     Line("short", 1, 187500, 0, 0, 0), Line("badlabel", 0, 0, 0, 0, 0),
     Line("badcoord", 1, 0, 0, 0, 0), Line("overflow", 0, 0, 0, 0, 0), Blank}

\* a project open on its first image, whose annotation file is absent or
\* holds up to two of these lines; nothing is in the collection yet
InitLoader ==
    /\ projectLoaded = TRUE
    /\ labels = InitYaml
    /\ currentLabel = 0
    /\ yaml = InitYaml
    /\ mode = "BOX"
    /\ boxes = <<>>
    /\ is_box_started = FALSE
    /\ anchor = <<0, 0>>
    /\ selected_box_id = NoId
    /\ current_label_id = 0
    /\ current_index = 0
    /\ indexes = <<>>
    /\ ev = Ev("init", "", 0, 0)
    /\ imageDims = [i \in {0} |-> ProjectImageDim]
    /\ labelSize = ProjectImageDim
    /\ xform = Render(ProjectImageDim, ProjectImageDim)
    /\ \E f \in {Absent} \cup {File(<<>>)}
                \cup {File(<<a>>) : a \in LoaderLines}
                \cup {File(<<a, b>>) : a \in LoaderLines, b \in LoaderLines} :
          files = [i \in {0} |-> f]

NextLoader ==
    \/ LoadAnnotationsCall
    \/ ClearAllBoxes

SpecLoader == InitLoader /\ [][NextLoader]_vars

\* the positions of the well-formed lines: 5 fields, int() accepts the
\* first and float() reads a finite number from each of the next four
WellFormed(lines) == {i \in 1..Len(lines) : Loadable(lines[i])}

\* C31: load adds exactly one box per well-formed line, in file order: the
\* other lines are skipped and parsing goes on with the lines after them; an
\* absent file yields no boxes.
C31_LoadOnePerLine ==
    [][LoadAnnotationsCall =>
         LET file == files[current_index]
             wf == WellFormed(file.lines)
         IN  IF ~file.exists THEN boxes' = boxes
             ELSE /\ Len(boxes') = Len(boxes) + Cardinality(wf)
                  /\ SubSeq(boxes', 1, Len(boxes)) = boxes
                  /\ \A i \in wf :
                        boxes'[Len(boxes) + Cardinality({j \in wf : j <= i})].label
                           = file.lines[i].label
      ]_vars

\* C32: Append and Rename leave every annotation file of the project
\* unchanged and keep the index of every other label: Append only adds one
\* name at the end, Rename only replaces the name at the given index.
C32_AppendRenameFrame ==
    [][/\ \A n \in Names :
             OnAddLabelClicked(n) =>
                /\ files' = files
                /\ labels' = labels \o <<n>>
       /\ \A i \in 0..(MaxLabels - 1), n \in Names :
             OnEditLabelAccepted(i, n) =>
                /\ files' = files
                /\ Len(labels') = Len(labels)
                /\ labels'[i + 1] = n
                /\ \A j \in 1..Len(labels) : j # i + 1 => labels'[j] = labels[j]
      ]_vars

\* the first of three labels was given a new name in a project whose files
\* hold lines of every label
C32_Witness ==
    /\ ev.op = "on_edit_label_clicked"
    /\ Len(labels) = 3
    /\ labels[1] # "aromatics" /\ labels[2] = "esters" /\ labels[3] = "ketones"
    /\ \A f \in DOMAIN files : files[f] = RegistryFiles[f + 1]

\* C33: the anchor of a box in progress is an image pixel: when the display
\* is resized between the first and the second click, the image pixel the
\* second click will use as the anchored corner is still the pixel that was
\* under the pointer at the first click.
C33_AnchorSurvivesResize ==
    [][(/\ HandleDelayedResize
        /\ is_box_started
        /\ mode = "BOX")
       => ToImage(xform', anchor') = ToImage(xform, anchor)]_vars

----------------------------------------------------------------------------
(* The preview of the box in progress *)

\* mouseMoveEvent at widget position p.  The handler writes
\* current_mouse_x / current_mouse_y only; they are read by the next paint
\* and overwritten by the next move, and are carried in ev.a / ev.b
\* ("preview").  When the position converts to None they keep the value
\* they had ("no_point").
MouseMoveEvent(p) ==
    /\ Running
    /\ p[1] < labelSize[1] /\ p[2] < labelSize[2]
    /\ IF mode # "BOX"
       THEN ev' = Ev("mouseMoveEvent", "ignored_mode", 0, 0)
       ELSE IF ~is_box_started
       THEN ev' = Ev("mouseMoveEvent", "ignored", 0, 0)
       ELSE LET img_coords == ToImage(xform, p)
            IN  IF img_coords = NoPoint
                THEN ev' = Ev("mouseMoveEvent", "no_point", 0, 0)
                ELSE ev' = Ev("mouseMoveEvent", "preview",
                              Max(0, Min(img_coords[1], xform.ow - 1)),
                              Max(0, Min(img_coords[2], xform.oh - 1)))
    /\ UNCHANGED <<projectLoaded, labels, currentLabel, yaml, mode, boxes,
                   is_box_started, anchor, selected_box_id, current_label_id,
                   files, current_index, imageDims, labelSize, xform, indexes>>

\* _draw_preview_box: the rectangle, in image coordinates, whose corners
\* are handed to image_to_screen_coords
PreviewRect(anch, current_mouse) == RectOf(anch, current_mouse)

NextPreview ==
    \/ NextCanvas
    \/ \E p \in Points : MouseMoveEvent(p)

SpecPreview == Init /\ [][NextPreview]_vars

\* C34: while a box is anchored, a pointer move leaves the machine state and
\* the collection unchanged, and the preview rectangle it produces is the
\* rectangle, inside the image, that a second click at the same pointer
\* position would span.
C34_PreviewIsFinalBox ==
    [][\A p \in Points :
         (/\ MouseMoveEvent(p)
          /\ is_box_started
          /\ mode = "BOX")
         => /\ UNCHANGED <<is_box_started, anchor, boxes, selected_box_id, mode>>
            /\ ev'.res = "preview" =>
                  /\ ev'.a \in 0..(xform.ow - 1)
                  /\ ev'.b \in 0..(xform.oh - 1)
                  /\ PreviewRect(anchor, <<ev'.a, ev'.b>>)
                       = RectOf(ToImage(xform, anchor), ToImage(xform, p))
      ]_vars

----------------------------------------------------------------------------
(* A session in which labels are added and renamed as well *)

NextLabelling ==
    \/ LoadExistingProject
    \/ \E d \in {"+", "-"} : NavigateImage(d)
    \/ CloseEvent
    \/ \E i \in 0..(MaxLabels - 1) : DeleteLabel(i)
    \/ \E p \in SessionPoints : MousePressEvent(p, LeftButton)
    \/ \E n \in {"ketones"} : OnAddLabelClicked(n)
    \/ \E i \in 0..(MaxLabels - 1), n \in {"ketones"} : OnEditLabelAccepted(i, n)

SpecLabelling == Init /\ [][NextLabelling]_vars

\* the same session in a project that has no annotation file yet and whose
\* dataset.yaml holds an empty names list
InitBlank ==
    /\ InitApp
    /\ yaml = <<>>
    /\ files = [i \in 0..(Len(InitFiles) - 1) |-> Absent]
    /\ imageDims = [i \in 0..(Len(InitFiles) - 1) |-> ProjectImageDim]

SpecBlank == InitBlank /\ [][NextLabelling]_vars

\* C35: while a project is open, after any sequence of draw, Append, Rename,
\* Delete, navigation and save operations, every well-formed line of every
\* annotation file carries a label index that is a slot of the label list:
\* 0 <= label_index < number of labels.
C35_LabelsInRange ==
    projectLoaded =>
       \A f \in DOMAIN files :
          \A i \in 1..Len(files[f].lines) :
             Loadable(files[f].lines[i]) =>
                files[f].lines[i].label \in 0..(Len(labels) - 1)

\* C36: after a successful deleteLabel(idx), CURRENT_LABEL is its previous
\* value clamped into the new range: unchanged when still smaller than the
\* new label count, the new count minus one otherwise.
C36_CurrentLabelClamped ==
    [][\A k \in 0..(MaxLabels - 1) :
         DeletesLabel(k) =>
            currentLabel' = IF currentLabel < Len(labels') THEN currentLabel
                            ELSE Len(labels') - 1
      ]_vars

\* C37: saving an empty collection for an image that has no annotation file
\* does not create one: the file is still absent after the save.
C37_EmptySaveCreatesNoFile ==
    [][(/\ SaveTriggered
        /\ projectLoaded
        /\ boxes = <<>>
        /\ ~files[current_index].exists)
       => ~files'[current_index].exists]_vars

\* C38: after any sequence of clicks, mode switches, deletions and clears,
\* at most one box has selected = true, and selected_box_id is non-null
\* exactly when a box with that id is in the collection and has
\* selected = true.
C38_SelectionConsistent ==
    /\ Cardinality({i \in 1..Len(boxes) : boxes[i].status}) <= 1
    /\ (selected_box_id # NoId) <=>
          \E i \in 1..Len(boxes) :
             boxes[i].id = selected_box_id /\ boxes[i].status

\* C40: detector-label reconciliation never changes the index of a label
\* that was already in the project: the label list before is a prefix of the
\* list after and no annotation file is touched; reconciling the same
\* detector list a second time appends nothing and yields the same mapping.
C40_ReconcilePrefixIdempotent ==
    [][\A D \in DetectorLists :
         OnLoadModelClicked(D) =>
            /\ Len(labels') >= Len(labels)
            /\ SubSeq(labels', 1, Len(labels)) = labels
            /\ files' = files
            /\ MapIndexes(labels', D) = [labels |-> labels', mapping |-> indexes']
      ]_vars

\* the detector list [ketones, aromatics] was merged into a project that
\* had esters only: both names were appended behind it
C40_Witness ==
    /\ ev.op = "on_load_model_clicked"
    /\ labels = <<"esters", "ketones", "aromatics">>
    /\ indexes = <<1, 2>>

\* box b of the collection before delete_label(k) is in the collection bxs
\* afterwards: same rectangle, label lowered by one when it was above k
StillIn(b, bxs, k) ==
    \E j \in 1..Len(bxs) :
       /\ bxs[j].x = b.x /\ bxs[j].y = b.y
       /\ bxs[j].w = b.w /\ bxs[j].h = b.h
       /\ bxs[j].label = IF b.label > k THEN b.label - 1 ELSE b.label

\* C39: deleteLabel(k) loses no annotation of the displayed image that is
\* unrelated to label k: every box of the in-memory collection with a label
\* other than k, boxes drawn since the last save included, is still in the
\* collection afterwards, its label lowered by one when it was above k.
C39_DeleteKeepsOtherBoxes ==
    [][\A k \in 0..(MaxLabels - 1) :
         DeletesLabel(k) =>
            \A i \in 1..Len(boxes) :
               boxes[i].label # k => StillIn(boxes[i], boxes', k)
      ]_vars
====
